---- MODULE Spec2Model ----
(***************************************************************************)
(* Monte Carlo tree search engine (aklimk/mcts): the arena of MCTSNode     *)
(* records, the four phases select / expand / simulate / backpropagate,    *)
(* UCT, path reconstruction, and the ChessState game the engine is         *)
(* instantiated with.  Arena indices are the Rust indices (root = 0); the  *)
(* arena itself is a TLA+ sequence, so index i lives at arena[i + 1].      *)
(***************************************************************************)
EXTENDS Integers, Sequences, FiniteSets, TLC

VARIABLES
    arena,          \* MCTSTree.arena : Vec<MCTSNode>
    created,        \* history: per arena index, the legal-action list computed at node creation
    bp_starts,      \* history: per arena index, how many backpropagate calls started there
    last,           \* the last call made on the tree: [op, node, result, ret, factor]
    pc,             \* position of the caller loop of main
    runs_done,      \* caller loop: the loop counter _i
    select,         \* caller loop: let select
    expand,         \* caller loop: let expand
    simulate,       \* caller loop: let simulate
    rollout,        \* the locals of a running simulate call: [pc, node, count, game_state, applied, ret]
    random_generator, \* MCTSTree.random_generator, where a specification follows its state
    twin            \* a second tree driven by the same calls: [arena, random_generator, ret]

vars == <<arena, created, bp_starts, last, pc, runs_done, select, expand, simulate, rollout, random_generator, twin>>

(***************************************************************************)
(* Bounds of the model.                                                    *)
(***************************************************************************)
\* longest arena the free-call specification grows
MaxNodes == 3
\* most backpropagate calls the free-call specification makes
MaxBackprops == 3
\* iteration budget of the caller loop (stands for runs = 50000)
Runs == 5
\* most backpropagate calls between the reading calls of SpecQuery
QueryBackprops == 1
\* longest arena SpecSimulate starts a rollout in
SimulateNodes == 2
\* period of the word sequences a seeded generator is taken from
StreamPeriod == 2
\* longest arena the one-line caller grows
DeepNodes == 53

(***************************************************************************)
(* Option::None, for MCTSNode.parent and ChessState.last_move.             *)
(***************************************************************************)
None == -1

\* game_state_trait.rs : enum GameResult
GameResult == {"FirstPlayerWin", "SecondPlayerWin", "Draw"}

(***************************************************************************)
(* The chess crate's Board, abstracted to a small move graph.  A board is  *)
(* a placement (which of five piece placements is on the board) and the    *)
(* colour to move.  Placement 2 is a checkmate (no legal move, the side to *)
(* move is in check), placement 3 a stalemate (no legal move, no check).   *)
(* Moves are numbered; move 4 is a pawn move and move 5 a capture, the     *)
(* others are quiet piece moves.                                           *)
(***************************************************************************)
Placements == 0..4

\* MoveGen::new_legal(&board).collect() : the legal moves, in generation order
MoveGen(board) ==
    CASE board.placement = 0 -> <<1, 2, 3>>
      [] board.placement = 1 -> <<1, 4>>
      [] board.placement = 4 -> <<5, 2>>
      [] OTHER               -> <<>>

\* the placement board.make_move_new(action) leads to
Destination(placement, action) ==
    CASE placement = 0 /\ action = 1 -> 1
      [] placement = 0 /\ action = 2 -> 2
      [] placement = 0 /\ action = 3 -> 3
      [] placement = 1 /\ action = 1 -> 0
      [] placement = 1 /\ action = 4 -> 4
      [] placement = 4 /\ action = 5 -> 0
      [] placement = 4 /\ action = 2 -> 2
      [] OTHER                       -> placement

\* board.make_move_new(action): the move is made and the other colour is to move
make_move_new(board, action) ==
    [placement    |-> Destination(board.placement, action),
     side_to_move |-> IF board.side_to_move = "White" THEN "Black" ELSE "White"]

\* board.piece_on(action.get_dest()).is_some() : the move captures
PieceOnDest(board, action) == board.placement = 4 /\ action = 5

\* board.piece_on(action.get_source()) == Some(Piece::Pawn)
SourceIsPawn(board, action) == board.placement = 1 /\ action = 4

\* board.checkers() != EMPTY : the side to move is in check
InCheck(board) == board.placement = 2

(***************************************************************************)
(* chess_env.rs : impl GameState<ChessMove> for ChessState                 *)
(***************************************************************************)
\* the 50-move threshold of status_with_moves_left and result
FiftyMoveLimit == 50

\* A starting position is a FEN text; the model keeps the three FEN fields
\* the code could read: piece placement, active colour, halfmove clock.
StartingPositions ==
    [placement : {0, 1, 2, 4}, active : {"w", "b"}, halfmove : {0, 7}]

\* ChessState::from_str : the board is parsed, the 50-move counter starts at
\* 0 whatever the FEN's halfmove clock says, no last move, depth 0
ChessState_from_str(starting_fen) ==
    [board |-> [placement    |-> starting_fen.placement,
                side_to_move |-> IF starting_fen.active = "w" THEN "White" ELSE "Black"],
     stalemate_50_move_counter |-> 0,
     last_move |-> None,
     depth |-> 0]

\* ChessState::apply_action
ChessState_apply_action(gs, action) ==
    LET check1 == PieceOnDest(gs.board, action)
        check2 == SourceIsPawn(gs.board, action)
        new_stalemate_50_move_counter ==
            IF check1 \/ check2 THEN 0 ELSE gs.stalemate_50_move_counter + 1
    IN  [board |-> make_move_new(gs.board, action),
         stalemate_50_move_counter |-> new_stalemate_50_move_counter,
         last_move |-> action,
         depth |-> gs.depth + 1]

\* ChessState::status_with_moves_left : false once the counter reached 50
ChessState_status_with_moves_left(gs) ==
    IF gs.stalemate_50_move_counter >= FiftyMoveLimit THEN FALSE ELSE TRUE

\* ChessState::result
ChessState_result(gs) ==
    IF ~InCheck(gs.board) \/ gs.stalemate_50_move_counter >= FiftyMoveLimit
    THEN "Draw"
    ELSE IF gs.board.side_to_move = "Black" THEN "FirstPlayerWin"
         ELSE "SecondPlayerWin"

\* ChessState::generate_legal_actions
ChessState_generate_legal_actions(gs) == MoveGen(gs.board)

\* ChessState::side_to_move : true when the first player (White) is to move
ChessState_side_to_move(gs) == gs.board.side_to_move = "White"

(***************************************************************************)
(* mcts.rs, mod tests : impl GameState<u16> for PlaceHolderState           *)
(***************************************************************************)
\* PlaceHolderState::from_str
PlaceHolderState_from_str(starting_fen) == [last_action_made |-> 0, depth_counter |-> 0]

\* PlaceHolderState::apply_action
PlaceHolderState_apply_action(gs, action) ==
    [last_action_made |-> action, depth_counter |-> gs.depth_counter + 1]

\* PlaceHolderState::status_with_moves_left
PlaceHolderState_status_with_moves_left(gs) == FALSE

\* PlaceHolderState::result
PlaceHolderState_result(gs) == "Draw"

\* PlaceHolderState::generate_legal_actions
PlaceHolderState_generate_legal_actions(gs) == <<>>

\* PlaceHolderState::side_to_move
PlaceHolderState_side_to_move(gs) == (gs.depth_counter % 2) = 0

(***************************************************************************)
(* game_state_trait.rs : trait GameState<Action>.  The engine is generic   *)
(* over the game; a call goes to the implementation of the state's type.   *)
(***************************************************************************)
IsPlaceHolderState(gs) == "depth_counter" \in DOMAIN gs

\* GameState::from_str, for MCTSTree<ChessMove, ChessState>
from_str(starting_fen) == ChessState_from_str(starting_fen)

\* GameState::apply_action
apply_action(gs, action) ==
    IF IsPlaceHolderState(gs) THEN PlaceHolderState_apply_action(gs, action)
    ELSE ChessState_apply_action(gs, action)

\* GameState::status_with_moves_left
status_with_moves_left(gs) ==
    IF IsPlaceHolderState(gs) THEN PlaceHolderState_status_with_moves_left(gs)
    ELSE ChessState_status_with_moves_left(gs)

\* GameState::result
result(gs) ==
    IF IsPlaceHolderState(gs) THEN PlaceHolderState_result(gs)
    ELSE ChessState_result(gs)

\* GameState::generate_legal_actions
generate_legal_actions(gs) ==
    IF IsPlaceHolderState(gs) THEN PlaceHolderState_generate_legal_actions(gs)
    ELSE ChessState_generate_legal_actions(gs)

\* GameState::side_to_move
side_to_move(gs) ==
    IF IsPlaceHolderState(gs) THEN PlaceHolderState_side_to_move(gs)
    ELSE ChessState_side_to_move(gs)

(***************************************************************************)
(* Sequence helpers.                                                       *)
(***************************************************************************)
Range(s) == {s[k] : k \in 1..Len(s)}

\* Vec::remove(index) with a 0-based index
VecRemove(s, index) ==
    [k \in 1..(Len(s) - 1) |-> IF k <= index THEN s[k] ELSE s[k + 1]]

(***************************************************************************)
(* mcts.rs : the arena.                                                    *)
(***************************************************************************)
\* self.arena.len()
ArenaLen == Len(arena)

\* the valid arena indices
Indices == 0..(ArenaLen - 1)

\* self.arena[i]
Node(i) == arena[i + 1]

\* struct MCTSNode, as pushed by with_capacity and expand: empty expanded,
\* zero statistics
NewNode(game_state, parent, unexpanded) ==
    [game_state |-> game_state,
     parent     |-> parent,
     expanded   |-> <<>>,
     unexpanded |-> unexpanded,
     wins |-> 0, draws |-> 0, sims |-> 0]

\* MCTSTree::with_capacity : the arena holding the root alone
with_capacity(starting_pos) ==
    LET root_game_state == from_str(starting_pos)
        unexpanded == generate_legal_actions(root_game_state)
    IN  <<NewNode(root_game_state, None, unexpanded)>>

\* expand with a slip: the chosen action is not removed from unexpanded
ExpandArenaKeepsAction(a, leaf_node, random_number) ==
    LET leaf == a[leaf_node + 1]
        gs == apply_action(leaf.game_state, leaf.unexpanded[random_number + 1])
        pushed == Append(a, NewNode(gs, leaf_node, generate_legal_actions(gs)))
    IN  [pushed EXCEPT ![leaf_node + 1].expanded = Append(leaf.expanded, Len(pushed) - 1)]

\* expand with a slip: the child's parent is the root instead of the leaf
ExpandArenaParentRoot(a, leaf_node, random_number) ==
    LET leaf == a[leaf_node + 1]
        gs == apply_action(leaf.game_state, leaf.unexpanded[random_number + 1])
        pushed == Append(a, NewNode(gs, 0, generate_legal_actions(gs)))
    IN  [pushed EXCEPT
            ![leaf_node + 1].unexpanded = VecRemove(leaf.unexpanded, random_number),
            ![leaf_node + 1].expanded = Append(leaf.expanded, Len(pushed) - 1)]

\* expand with a slip: the child's parent is the arena length after the push
ExpandArenaParentSelf(a, leaf_node, random_number) ==
    LET leaf == a[leaf_node + 1]
        gs == apply_action(leaf.game_state, leaf.unexpanded[random_number + 1])
        pushed == Append(a, NewNode(gs, Len(a) + 1, generate_legal_actions(gs)))
    IN  [pushed EXCEPT
            ![leaf_node + 1].unexpanded = VecRemove(leaf.unexpanded, random_number),
            ![leaf_node + 1].expanded = Append(leaf.expanded, Len(pushed) - 1)]

\* expand with a slip: the new state also overwrites the leaf's game_state
ExpandArenaOverwritesLeaf(a, leaf_node, random_number) ==
    LET leaf == a[leaf_node + 1]
        gs == apply_action(leaf.game_state, leaf.unexpanded[random_number + 1])
        pushed == Append(a, NewNode(gs, leaf_node, generate_legal_actions(gs)))
    IN  [pushed EXCEPT
            ![leaf_node + 1].game_state = gs,
            ![leaf_node + 1].unexpanded = VecRemove(leaf.unexpanded, random_number),
            ![leaf_node + 1].expanded = Append(leaf.expanded, Len(pushed) - 1)]

\* expand with a slip: unexpanded.remove(0) instead of remove(random_number)
ExpandArenaRemovesFirst(a, leaf_node, random_number) ==
    LET leaf == a[leaf_node + 1]
        gs == apply_action(leaf.game_state, leaf.unexpanded[random_number + 1])
        pushed == Append(a, NewNode(gs, leaf_node, generate_legal_actions(gs)))
    IN  [pushed EXCEPT
            ![leaf_node + 1].unexpanded = VecRemove(leaf.unexpanded, 0),
            ![leaf_node + 1].expanded = Append(leaf.expanded, Len(pushed) - 1)]

\* expand with a slip: unexpanded.pop() instead of remove(random_number)
ExpandArenaRemovesLast(a, leaf_node, random_number) ==
    LET leaf == a[leaf_node + 1]
        gs == apply_action(leaf.game_state, leaf.unexpanded[random_number + 1])
        pushed == Append(a, NewNode(gs, leaf_node, generate_legal_actions(gs)))
    IN  [pushed EXCEPT
            ![leaf_node + 1].unexpanded = SubSeq(leaf.unexpanded, 1, Len(leaf.unexpanded) - 1),
            ![leaf_node + 1].expanded = Append(leaf.expanded, Len(pushed) - 1)]

\* MCTSTree::expand on a node with unexpanded actions, the random generator
\* having drawn random_number: the arena after the call
ExpandArena(a, leaf_node, random_number) ==
    LET leaf == a[leaf_node + 1]
        random_action == leaf.unexpanded[random_number + 1]
        expanded_game_state == apply_action(leaf.game_state, random_action)
        expanded_game_state_unexpanded == generate_legal_actions(expanded_game_state)
        pushed == Append(a, NewNode(expanded_game_state, leaf_node,
                                    expanded_game_state_unexpanded))
        expanded_node == Len(pushed) - 1
    IN  [pushed EXCEPT
            ![leaf_node + 1].unexpanded = VecRemove(leaf.unexpanded, random_number),
            ![leaf_node + 1].expanded = Append(leaf.expanded, expanded_node)]

\* backpropagate's walk with a slip: the walk starts at the parent, so the
\* start node itself is never updated
RECURSIVE BackpropPathAncestorsOnly(_, _)
BackpropPathAncestorsOnly(a, current_node) ==
    IF a[current_node + 1].parent = None
    THEN {}
    ELSE {a[current_node + 1].parent}
            \cup BackpropPathAncestorsOnly(a, a[current_node + 1].parent)

\* backpropagate's walk with a slip: the loop breaks before the root is processed
RECURSIVE BackpropPathStopsBelowRoot(_, _)
BackpropPathStopsBelowRoot(a, current_node) ==
    IF a[current_node + 1].parent = None
    THEN {}
    ELSE {current_node} \cup BackpropPathStopsBelowRoot(a, a[current_node + 1].parent)

\* the nodes backpropagate visits from current_node: the node and its
\* ancestors, up to the node without a parent
RECURSIVE BackpropPath(_, _)
BackpropPath(a, current_node) ==
    IF a[current_node + 1].parent = None
    THEN {current_node}
    ELSE {current_node} \cup BackpropPath(a, a[current_node + 1].parent)

\* the loop body with a slip: sims is counted only for decisive results
BackpropNodeSkipsDrawSims(node, res) ==
    LET side_bool == ~side_to_move(node.game_state)
    IN  [node EXCEPT
            !.draws = IF res = "Draw" THEN @ + 1 ELSE @,
            !.wins  = IF res # "Draw" /\ (res = "FirstPlayerWin") = side_bool THEN @ + 1 ELSE @,
            !.sims  = IF res = "Draw" THEN @ ELSE @ + 1]

\* the loop body with a slip: the else is missing, so a Draw also runs the
\* win comparison
BackpropNodeMissingElse(node, res) ==
    LET side_bool == ~side_to_move(node.game_state)
    IN  [node EXCEPT
            !.draws = IF res = "Draw" THEN @ + 1 ELSE @,
            !.wins  = IF (res = "FirstPlayerWin") = side_bool THEN @ + 1 ELSE @,
            !.sims  = @ + 1]

\* the loop body with a slip: side_bool is side_to_move() without the negation
BackpropNodeNoNegation(node, res) ==
    LET side_bool == side_to_move(node.game_state)
    IN  [node EXCEPT
            !.draws = IF res = "Draw" THEN @ + 1 ELSE @,
            !.wins  = IF res # "Draw" /\ (res = "FirstPlayerWin") = side_bool THEN @ + 1 ELSE @,
            !.sims  = @ + 1]

\* the loop body with a slip: every decisive result is credited, whichever
\* side is to move
BackpropNodeCreditsEverySide(node, res) ==
    [node EXCEPT
        !.draws = IF res = "Draw" THEN @ + 1 ELSE @,
        !.wins  = IF res # "Draw" THEN @ + 1 ELSE @,
        !.sims  = @ + 1]

\* one iteration of backpropagate's loop body on a node
BackpropNode(node, res) ==
    LET result_bool == res = "FirstPlayerWin"
        side_bool == ~side_to_move(node.game_state)
    IN  [node EXCEPT
            !.draws = IF res = "Draw" THEN @ + 1 ELSE @,
            !.wins  = IF res # "Draw" /\ result_bool = side_bool THEN @ + 1 ELSE @,
            !.sims  = @ + 1]

\* backpropagate with a slip: every node of the arena is updated, not only
\* the path to the root
BackpropArenaAllNodes(a, current_node, res) ==
    [k \in 1..Len(a) |-> BackpropNode(a[k], res)]

\* MCTSTree::backpropagate : the arena after the call
BackpropArena(a, current_node, res) ==
    LET path == BackpropPath(a, current_node)
    IN  [k \in 1..Len(a) |-> IF (k - 1) \in path THEN BackpropNode(a[k], res) ELSE a[k]]

(***************************************************************************)
(* f32 arithmetic of uct.  A value is NaN, +infinity, or a finite number   *)
(* kept in units of 1/100000.                                              *)
(***************************************************************************)
NaN == [kind |-> "nan", v |-> 0]
Infinity == [kind |-> "inf", v |-> 0]
Finite(v) == [kind |-> "fin", v |-> v]

\* f32::MIN, the most negative finite value
F32Min == Finite(-2147483647)

\* a > b on f32: false as soon as one side is NaN
F32Greater(a, b) ==
    /\ a.kind # "nan"
    /\ b.kind # "nan"
    /\ \/ a.kind = "inf" /\ b.kind = "fin"
       \/ a.kind = "fin" /\ b.kind = "fin" /\ a.v > b.v

\* f32::ln of a positive integer, in millionths
LnMicro(n) ==
    <<0, 693147, 1098612, 1386294, 1609438, 1791759, 1945910, 2079442,
      2197225, 2302585, 2397895, 2484907, 2564949, 2639057, 2708050, 2772589,
      2833213, 2890372, 2944439, 2995732, 3044522, 3091042, 3135494, 3178054>>[n]

\* integer square root: the r in lo..hi with r*r <= x < (r+1)*(r+1)
RECURSIVE ISqrtIn(_, _, _)
ISqrtIn(x, lo, hi) ==
    IF lo >= hi THEN lo
    ELSE LET mid == (lo + hi + 1) \div 2
         IN  IF mid * mid <= x THEN ISqrtIn(x, mid, hi) ELSE ISqrtIn(x, lo, mid - 1)

ISqrt(x) == ISqrtIn(x, 0, 46340)

\* the integer square root of 100 * x, worked out without forming 100 * x:
\* one more decimal digit d on r = ISqrt(x)
ISqrt100(x) ==
    LET r == ISqrt(x)
        rem == x - r * r
        d == CHOOSE d \in 0..9 :
                /\ 20 * r * d + d * d <= 100 * rem
                /\ \A e \in (d + 1)..9 : 20 * r * e + e * e > 100 * rem
    IN  10 * r + d

\* exploration_factor.unwrap_or(f32::sqrt(2.0)), squared.  The exploration
\* factors of the callers are None, Some(0.0) and Some(sqrt(2)): None is
\* None, Some(0.0) is 0, Some(sqrt(2)) is 2.
ExplorationFactors == {None, 0, 2}

\* the factor with a slip: Some(0.0) is taken for a missing factor and
\* replaced by the default sqrt(2)
ExplorationSquaredZeroIsDefault(exploration_factor) ==
    IF exploration_factor \in {None, 0} THEN 2 ELSE exploration_factor

\* exploration_factor.unwrap_or(f32::sqrt(2.0)), squared

ExplorationSquared(exploration_factor) ==
    IF exploration_factor = None THEN 2 ELSE exploration_factor

\* (wins / sims) + c * sqrt(ln(parent_sims) / sims) on f32 values
UctValue(wins, sims, parent_sims, exploration_factor) ==
    LET c2 == ExplorationSquared(exploration_factor)
    IN  IF sims = 0
        THEN \* wins / 0 is NaN (0/0) or +inf; ln(parent_sims) / 0 is -inf, NaN or +inf
             IF wins > 0 /\ parent_sims >= 2 /\ c2 > 0 THEN Infinity ELSE NaN
        ELSE IF parent_sims = 0
             THEN NaN  \* sqrt(ln(0) / sims) = sqrt(-inf)
             ELSE Finite(((wins * 100000) \div sims)
                         + ISqrt100((c2 * 100 * LnMicro(parent_sims)) \div sims))

\* MCTSTree::uct, for a child that has a parent
uct(a, child, exploration_factor) ==
    LET child_obj == a[child + 1]
    IN  UctValue(child_obj.wins, child_obj.sims, a[child_obj.parent + 1].sims,
                 exploration_factor)

\* the loop of get_max_uct_child over expanded[k..], carrying
\* (best_value, best_child)
RECURSIVE MaxUctScan(_, _, _, _, _, _)
MaxUctScan(a, exp, k, exploration_factor, best_value, best_child) ==
    IF k > Len(exp) THEN best_child
    ELSE LET child_uct == uct(a, exp[k], exploration_factor)
         IN  IF F32Greater(child_uct, best_value)
             THEN MaxUctScan(a, exp, k + 1, exploration_factor, child_uct, exp[k])
             ELSE MaxUctScan(a, exp, k + 1, exploration_factor, best_value, best_child)

\* get_max_uct_child with a slip: the first expanded child is returned
\* whatever its uct
GetMaxUctChildFirst(a, parent, exploration_factor) ==
    IF Len(a[parent + 1].expanded) = 0 THEN 0 ELSE a[parent + 1].expanded[1]

\* get_max_uct_child with a slip: best_value starts at +infinity, so no
\* child's uct is ever greater and the fallback index is returned
GetMaxUctChildNoneGreater(a, parent, exploration_factor) ==
    MaxUctScan(a, a[parent + 1].expanded, 1, exploration_factor, Infinity, 0)

\* MCTSTree::get_max_uct_child
get_max_uct_child(a, parent, exploration_factor) ==
    MaxUctScan(a, a[parent + 1].expanded, 1, exploration_factor, F32Min, 0)

\* the result of a select call that never returns
Diverges == -2

\* MCTSTree::select : the loop from root.  The loop is deterministic and
\* reads a tree it does not change, so coming back to a node already
\* visited means it never returns.
RECURSIVE SelectFrom(_, _, _, _)
SelectFrom(a, root, exploration_factor, visited) ==
    IF root \in visited THEN Diverges
    ELSE IF Len(a[root + 1].unexpanded) # 0 THEN root
    ELSE IF Len(a[root + 1].expanded) = 0 THEN root
    ELSE SelectFrom(a, get_max_uct_child(a, root, exploration_factor),
                    exploration_factor, visited \cup {root})

Select(a, root, exploration_factor) == SelectFrom(a, root, exploration_factor, {})

\* the cap of simulate: "if count > 200"
RolloutCap == 200

\* MCTSTree::simulate : the results the rollout can return, over every
\* outcome of the random choices.  states are the game states the rollout
\* can hold when the loop condition is tested for the count-th time.  The
\* recursion stops early once all three results are in acc.
RECURSIVE Rollouts(_, _, _)
Rollouts(states, count, acc) ==
    LET live == {gs \in states :
                    Len(generate_legal_actions(gs)) > 0 /\ status_with_moves_left(gs)}
        acc2 == acc \cup {result(gs) : gs \in states \ live}
    IN  IF live = {} \/ acc2 = GameResult THEN acc2
        ELSE IF count > RolloutCap THEN acc2 \cup {"Draw"}
        ELSE Rollouts(UNION {{apply_action(gs, act) : act \in Range(generate_legal_actions(gs))}
                               : gs \in live},
                      count + 1, acc2)

SimulateResults(a, node) == Rollouts({a[node + 1].game_state}, 0, {})

\* the outcome of a call that panics
Panic == [kind |-> "panic", v |-> 0]

\* uct with a slip: a missing parent falls back to the root instead of
\* failing (unwrap_or(0) for expect)
UctCallRootFallback(a, child, exploration_factor) ==
    LET child_obj == a[child + 1]
    IN  UctValue(child_obj.wins, child_obj.sims,
                 a[(IF child_obj.parent = None THEN 0 ELSE child_obj.parent) + 1].sims,
                 exploration_factor)

\* MCTSTree::uct as called from outside: child_obj.parent.expect("no parent")
\* panics on a node without a parent
UctCall(a, child, exploration_factor) ==
    IF a[child + 1].parent = None THEN Panic ELSE uct(a, child, exploration_factor)

\* iter().rev().collect()
Reverse(s) == [k \in 1..Len(s) |-> s[Len(s) + 1 - k]]

\* the loop of trace_path: the nodes pushed to path, from current_node upward,
\* the node without a parent not pushed
RECURSIVE TracePathPushed(_, _)
TracePathPushed(a, current_node) ==
    IF a[current_node + 1].parent = None THEN <<>>
    ELSE <<current_node>> \o TracePathPushed(a, a[current_node + 1].parent)

\* trace_path with a slip: the collected path is returned without reversing
TracePathUnreversed(a, current_node) == TracePathPushed(a, current_node)

\* MCTSTree::trace_path
TracePath(a, current_node) == Reverse(TracePathPushed(a, current_node))

\* simulate with a slip: the rollout runs on the node's own game_state, not
\* on a clone, and leaves the state after its first move in the node
SimulateArenaInPlace(a, node) ==
    LET gs == a[node + 1].game_state
        actions == generate_legal_actions(gs)
    IN  IF Len(actions) > 0 /\ status_with_moves_left(gs)
        THEN [a EXCEPT ![node + 1].game_state = apply_action(gs, actions[1])]
        ELSE a

\* MCTSTree::simulate : the arena after the call.  The rollout works on a
\* clone of the node's game_state and writes to no node.
SimulateArena(a, node) == a

(***************************************************************************)
(* Calls on the tree, as actions.                                          *)
(***************************************************************************)
CallerIdle == UNCHANGED <<pc, runs_done, select, expand, simulate, rollout, random_generator, twin>>

\* the early return with a slip: the last arena index is returned, as on the
\* path that pushed a node
ExpandTerminalReturnsLast(leaf_node) ==
    /\ leaf_node \in Indices
    /\ Len(Node(leaf_node).unexpanded) = 0
    /\ last' = [op |-> "expand", node |-> leaf_node, result |-> "Draw", ret |-> ArenaLen - 1, factor |-> None]
    /\ UNCHANGED <<arena, created, bp_starts>>

\* expand(leaf_node) on a node without unexpanded actions: early return
ExpandTerminal(leaf_node) ==
    /\ leaf_node \in Indices
    /\ Len(Node(leaf_node).unexpanded) = 0
    /\ last' = [op |-> "expand", node |-> leaf_node, result |-> "Draw", ret |-> leaf_node, factor |-> None]
    /\ UNCHANGED <<arena, created, bp_starts>>

\* expand(leaf_node) on a node with unexpanded actions
ExpandNew(leaf_node) ==
    /\ leaf_node \in Indices
    /\ Len(Node(leaf_node).unexpanded) # 0
    /\ \E random_number \in 0..(Len(Node(leaf_node).unexpanded) - 1) :
          /\ arena' = ExpandArena(arena, leaf_node, random_number)
          /\ created' = Append(created, arena'[Len(arena')].unexpanded)
    /\ bp_starts' = Append(bp_starts, 0)
    /\ last' = [op |-> "expand", node |-> leaf_node, result |-> "Draw", ret |-> ArenaLen, factor |-> None]

\* backpropagate(current_node, result)
Backpropagate(current_node, res) ==
    /\ current_node \in Indices
    /\ arena' = BackpropArena(arena, current_node, res)
    /\ bp_starts' = [bp_starts EXCEPT ![current_node + 1] = @ + 1]
    /\ last' = [op |-> "backpropagate", node |-> current_node, result |-> res, ret |-> None, factor |-> None]
    /\ UNCHANGED created

\* the value of random_generator and twin in the specifications that take
\* every random number as a free choice
NotFollowed == None

\* no simulate call is running
NoRollout ==
    [pc |-> "idle", node |-> None, count |-> 0, game_state |-> None, applied |-> 0,
     ret |-> None]

NoCall == [op |-> "with_capacity", node |-> None, result |-> "Draw", ret |-> None, factor |-> None]

Init ==
    /\ \E starting_pos \in StartingPositions : arena = with_capacity(starting_pos)
    /\ created = <<arena[1].unexpanded>>
    /\ bp_starts = <<0>>
    /\ last = NoCall
    /\ pc = "select"
    /\ runs_done = 0
    /\ select = 0
    /\ expand = 0
    /\ simulate = "Draw"
    /\ rollout = NoRollout
    /\ random_generator = NotFollowed
    /\ twin = NotFollowed

\* any public call, on any node of the arena
CallExpandTerminal == \E n \in Indices : ExpandTerminal(n) /\ CallerIdle
CallExpandNew == \E n \in Indices : ArenaLen < MaxNodes /\ ExpandNew(n) /\ CallerIdle
CallBackpropagate ==
    \E n \in Indices, res \in GameResult :
        Node(0).sims < MaxBackprops /\ Backpropagate(n, res) /\ CallerIdle

Next == CallExpandTerminal \/ CallExpandNew \/ CallBackpropagate

Spec == Init /\ [][Next]_vars

(***************************************************************************)
(* The calls that read the tree, on any node of the arena and with any     *)
(* exploration factor, between the calls that change it.                   *)
(***************************************************************************)
TreeHistoryIdle == UNCHANGED <<created, bp_starts>>

\* select(root, exploration_factor), when it returns
CallSelect ==
    \E root \in Indices, c \in ExplorationFactors :
        /\ Select(arena, root, c) # Diverges
        /\ last' = [op |-> "select", node |-> root, result |-> "Draw",
                    ret |-> Select(arena, root, c), factor |-> c]
        /\ UNCHANGED arena /\ TreeHistoryIdle /\ CallerIdle

\* get_max_uct_child(parent, exploration_factor)
CallGetMaxUctChild ==
    \E parent \in Indices, c \in ExplorationFactors :
        /\ last' = [op |-> "get_max_uct_child", node |-> parent, result |-> "Draw",
                    ret |-> get_max_uct_child(arena, parent, c), factor |-> c]
        /\ UNCHANGED arena /\ TreeHistoryIdle /\ CallerIdle

\* uct(child, exploration_factor)
CallUct ==
    \E child \in Indices, c \in ExplorationFactors :
        /\ last' = [op |-> "uct", node |-> child, result |-> "Draw",
                    ret |-> UctCall(arena, child, c), factor |-> c]
        /\ UNCHANGED arena /\ TreeHistoryIdle /\ CallerIdle

\* trace_path(current_node)
CallTracePath ==
    \E current_node \in Indices :
        /\ last' = [op |-> "trace_path", node |-> current_node, result |-> "Draw",
                    ret |-> TracePath(arena, current_node), factor |-> None]
        /\ UNCHANGED arena /\ TreeHistoryIdle /\ CallerIdle

\* simulate(node), with every outcome of the random choices
CallSimulate ==
    \E node \in Indices :
        /\ \E res \in SimulateResults(arena, node) :
              last' = [op |-> "simulate", node |-> node, result |-> res,
                       ret |-> None, factor |-> None]
        /\ arena' = SimulateArena(arena, node)
        /\ TreeHistoryIdle /\ CallerIdle

\* backpropagate(current_node, res), a bounded number of times
QueryBackpropagate ==
    \E n \in Indices, res \in GameResult :
        Node(0).sims < QueryBackprops /\ Backpropagate(n, res) /\ CallerIdle

NextQuery ==
    \/ CallExpandTerminal \/ CallExpandNew \/ QueryBackpropagate
    \/ CallSelect \/ CallUct \/ CallTracePath \/ CallSimulate

\* the trees of SpecQuery are built for the opening placement, with either
\* side to move
QueryPositions == {p \in StartingPositions : p.placement = 0 /\ p.halfmove = 0}

InitQuery == Init /\ \E starting_pos \in QueryPositions : arena = with_capacity(starting_pos)

SpecQuery == InitQuery /\ [][NextQuery]_vars

(***************************************************************************)
(* Calls with a node index, bounds check included.  Every public method    *)
(* starts by indexing self.arena with the index it is given, and Vec       *)
(* indexing panics on an index that is not below the length.  A call gives *)
(* the arena after it and what it returned.                                *)
(***************************************************************************)
\* backpropagate with a slip: an index past the end is clamped to the last
\* node, whose path is written before the failure shows
BackpropagateIndexedClamped(a, current_node, res) ==
    LET n == IF current_node >= Len(a) THEN Len(a) - 1 ELSE current_node
    IN  [arena |-> BackpropArena(a, n, res), ret |-> Panic]

\* backpropagate : &mut self.arena[current_node] comes first in the loop
BackpropagateIndexed(a, current_node, res) ==
    IF current_node >= Len(a) THEN [arena |-> a, ret |-> Panic]
    ELSE [arena |-> BackpropArena(a, current_node, res), ret |-> None]

\* trace_path : self.arena[current_node].parent comes first in the loop
TracePathIndexed(a, current_node) ==
    IF current_node >= Len(a) THEN [arena |-> a, ret |-> Panic]
    ELSE [arena |-> a, ret |-> TracePath(a, current_node)]

\* select : self.arena[root].unexpanded is the loop condition
SelectIndexed(a, root, exploration_factor) ==
    IF root >= Len(a) THEN [arena |-> a, ret |-> Panic]
    ELSE [arena |-> a, ret |-> Select(a, root, exploration_factor)]

\* expand : self.arena[leaf_node].unexpanded is read before anything else
ExpandIndexed(a, leaf_node, random_number) ==
    IF leaf_node >= Len(a) THEN [arena |-> a, ret |-> Panic]
    ELSE IF Len(a[leaf_node + 1].unexpanded) = 0 THEN [arena |-> a, ret |-> leaf_node]
    ELSE [arena |-> ExpandArena(a, leaf_node, random_number), ret |-> Len(a)]

\* uct : &self.arena[child] is its first statement
UctIndexed(a, child, exploration_factor) ==
    IF child >= Len(a) THEN [arena |-> a, ret |-> Panic]
    ELSE [arena |-> a, ret |-> UctCall(a, child, exploration_factor)]

(***************************************************************************)
(* MCTSTree::simulate, one turn of its loop at a time.  rollout holds the  *)
(* locals of the call: the cloned game_state and count; applied counts the *)
(* calls of apply_action, ret is the returned value.                       *)
(***************************************************************************)
SimulateIdle ==
    UNCHANGED <<arena, created, bp_starts, last, pc, runs_done, select, expand, simulate,
                random_generator, twin>>

\* the loop condition with a slip: the status test is negated
RolloutContinuesNegated(game_state) ==
    /\ Len(generate_legal_actions(game_state)) > 0
    /\ ~status_with_moves_left(game_state)

\* while actions.len() > 0 && game_state.status_with_moves_left()
RolloutContinues(game_state) ==
    /\ Len(generate_legal_actions(game_state)) > 0
    /\ status_with_moves_left(game_state)

\* the tree grows before the call, never during it
SimulateExpand == rollout.pc = "idle" /\ ArenaLen < SimulateNodes /\ CallExpandNew

\* let mut count = 0; let mut game_state = self.arena[node].game_state.clone()
SimulateBegin ==
    \E node \in Indices :
        /\ rollout.pc = "idle"
        /\ rollout' = [pc |-> "loop", node |-> node, count |-> 0,
                      game_state |-> Node(node).game_state, applied |-> 0, ret |-> None]
        /\ SimulateIdle

\* the cap with a slip: it is tested before the loop condition, whatever the
\* state reached
SimulateCapFirst ==
    /\ rollout.pc = "loop"
    /\ rollout.count > RolloutCap
    /\ rollout' = [rollout EXCEPT !.pc = "capped", !.ret = "Draw"]
    /\ SimulateIdle

\* if count > 200 { return GameResult::Draw; }
SimulateCap ==
    /\ rollout.pc = "loop"
    /\ RolloutContinues(rollout.game_state)
    /\ rollout.count > RolloutCap
    /\ rollout' = [rollout EXCEPT !.pc = "capped", !.ret = "Draw"]
    /\ SimulateIdle

\* one turn of the loop: a random action is applied, count += 1
SimulateApply ==
    /\ rollout.pc = "loop"
    /\ RolloutContinues(rollout.game_state)
    /\ ~(rollout.count > RolloutCap)
    /\ LET actions == generate_legal_actions(rollout.game_state)
       IN  \E random_number \in 0..(Len(actions) - 1) :
               rollout' = [rollout EXCEPT
                              !.game_state = apply_action(@, actions[random_number + 1]),
                              !.applied = @ + 1,
                              !.count = @ + 1]
    /\ SimulateIdle

\* return game_state.result()
SimulateReturn ==
    /\ rollout.pc = "loop"
    /\ ~RolloutContinues(rollout.game_state)
    /\ rollout' = [rollout EXCEPT !.pc = "returned", !.ret = result(rollout.game_state)]
    /\ SimulateIdle

NextSimulate ==
    \/ SimulateExpand \/ SimulateBegin \/ SimulateCap \/ SimulateApply \/ SimulateReturn

SpecSimulate == Init /\ [][NextSimulate]_vars

(***************************************************************************)
(* Calls with an index that is not in the arena, between the calls that    *)
(* build the tree.                                                         *)
(***************************************************************************)
\* the first indices past the end of the arena
OutOfRange == {ArenaLen, ArenaLen + 1}

\* the step of a call that gave outcome: the arena it left and, in last,
\* what it returned
CallOutcome(op, node, res, factor, outcome) ==
    /\ arena' = outcome.arena
    /\ last' = [op |-> op, node |-> node, result |-> res, ret |-> outcome.ret,
                factor |-> factor]
    /\ TreeHistoryIdle /\ CallerIdle

BackpropagateOutOfRange ==
    \E n \in OutOfRange, res \in GameResult :
        CallOutcome("backpropagate", n, res, None, BackpropagateIndexed(arena, n, res))

TracePathOutOfRange ==
    \E n \in OutOfRange :
        CallOutcome("trace_path", n, "Draw", None, TracePathIndexed(arena, n))

SelectOutOfRange ==
    \E n \in OutOfRange, c \in ExplorationFactors :
        CallOutcome("select", n, "Draw", c, SelectIndexed(arena, n, c))

ExpandOutOfRange ==
    \E n \in OutOfRange :
        CallOutcome("expand", n, "Draw", None, ExpandIndexed(arena, n, 0))

UctOutOfRange ==
    \E n \in OutOfRange, c \in ExplorationFactors :
        CallOutcome("uct", n, "Draw", c, UctIndexed(arena, n, c))

NextOutOfRange ==
    \/ CallExpandTerminal \/ CallExpandNew \/ QueryBackpropagate
    \/ BackpropagateOutOfRange \/ TracePathOutOfRange \/ SelectOutOfRange
    \/ ExpandOutOfRange \/ UctOutOfRange

SpecOutOfRange == InitQuery /\ [][NextOutOfRange]_vars

(***************************************************************************)
(* The random generator followed.  random_generator is a Xorshift128       *)
(* seeded at construction; whatever the algorithm, a seeded generator is a *)
(* fixed sequence of words, taken here as any periodic sequence the seed   *)
(* determines.  A generator value is the seed it was built from, its       *)
(* words, and the position of the next word.                               *)
(***************************************************************************)
\* the seeds given to with_capacity: None, Some(0), Some(1)
Seeds == {None, 0, 1}

\* the words a generator gives: enough to reach every index of the longest
\* action list
Words == 0..2

\* seed.unwrap_or(0) with a slip: a missing seed becomes 1
SeedFormattedNoneIsOne(seed) == IF seed = None THEN 1 ELSE seed

\* let seed_formatted = &[seed.unwrap_or(0), 0] : the first word, the second is 0
SeedFormatted(seed) == IF seed = None THEN 0 ELSE seed

\* the generator algorithms: each maps a formatted seed to the sequence of
\* words it gives
Xorshift128 == [{0, 1} -> [1..StreamPeriod -> Words]]

\* SeedableRng::from_seed(seed_formatted)
from_seed(xorshift, seed) ==
    [seed |-> seed, words |-> xorshift[SeedFormatted(seed)], pos |-> 1]

\* random_generator.gen_range(low, high) : the number drawn and the generator
\* after the draw
gen_range(gen, low, high) ==
    [value |-> low + (gen.words[gen.pos] % (high - low)),
     random_generator |-> [gen EXCEPT !.pos = (@ % StreamPeriod) + 1]]

\* MCTSTree::with_capacity, generator included
WithCapacitySeeded(xorshift, seed, starting_pos) ==
    [arena |-> with_capacity(starting_pos),
     random_generator |-> from_seed(xorshift, seed)]

\* MCTSTree::expand, generator included: the arena and the generator after
\* the call, and the index returned
ExpandSeeded(a, gen, leaf_node) ==
    IF Len(a[leaf_node + 1].unexpanded) = 0
    THEN [arena |-> a, random_generator |-> gen, ret |-> leaf_node]
    ELSE LET draw == gen_range(gen, 0, Len(a[leaf_node + 1].unexpanded))
         IN  [arena |-> ExpandArena(a, leaf_node, draw.value),
              random_generator |-> draw.random_generator,
              ret |-> Len(a)]

\* one turn of the loop of simulate, generator included, on the locals
\* [game_state, count, random_generator, ret]; ret is "running" until the
\* call returns, and a returned call stays as it is
RolloutTurn(r) ==
    IF r.ret # "running" THEN r
    ELSE IF RolloutContinues(r.game_state)
    THEN IF r.count > RolloutCap
         THEN [r EXCEPT !.ret = "Draw"]
         ELSE LET actions == generate_legal_actions(r.game_state)
                  draw == gen_range(r.random_generator, 0, Len(actions))
              IN  [game_state |-> apply_action(r.game_state, actions[draw.value + 1]),
                   count |-> r.count + 1,
                   random_generator |-> draw.random_generator,
                   ret |-> "running"]
    ELSE [r EXCEPT !.ret = result(r.game_state)]

\* MCTSTree::simulate, generator included: the locals when the loop is
\* entered
SimulateLocals(a, gen, node) ==
    [game_state |-> a[node + 1].game_state, count |-> 0,
     random_generator |-> gen, ret |-> "running"]

(***************************************************************************)
(* Two trees built by with_capacity for the same starting position and    *)
(* with the same seed, a missing seed and Some(0) taken as the same, and   *)
(* driven by the same calls: the cycle of main, with the arguments the     *)
(* first tree's results give.                                              *)
(***************************************************************************)
InitTwin ==
    /\ \E xorshift \in Xorshift128, seed1, seed2 \in Seeds, starting_pos \in QueryPositions :
          LET tree1 == WithCapacitySeeded(xorshift, seed1, starting_pos)
              tree2 == WithCapacitySeeded(xorshift, seed2, starting_pos)
          IN  /\ seed1 = seed2 \/ {seed1, seed2} = {None, 0}
              /\ arena = tree1.arena
              /\ random_generator = tree1.random_generator
              /\ twin = [arena |-> tree2.arena,
                         random_generator |-> tree2.random_generator,
                         rollout |-> NoRollout,
                         ret |-> None]
    /\ created = <<arena[1].unexpanded>>
    /\ bp_starts = <<0>>
    /\ last = NoCall
    /\ pc = "select"
    /\ runs_done = 0
    /\ select = 0
    /\ expand = 0
    /\ simulate = "Draw"
    /\ rollout = NoRollout

\* select(0, None) on both trees
TwinSelect ==
    /\ pc = "select"
    /\ runs_done < Runs
    /\ Select(arena, 0, None) # Diverges
    /\ Select(twin.arena, 0, None) # Diverges
    /\ select' = Select(arena, 0, None)
    /\ last' = [op |-> "select", node |-> 0, result |-> "Draw", ret |-> select',
                factor |-> None]
    /\ twin' = [twin EXCEPT !.ret = Select(twin.arena, 0, None)]
    /\ pc' = "expand"
    /\ UNCHANGED <<arena, created, bp_starts, runs_done, expand, simulate, rollout,
                   random_generator>>

\* expand(select) on both trees
TwinExpand ==
    /\ pc = "expand"
    /\ select < Len(twin.arena)
    /\ LET call1 == ExpandSeeded(arena, random_generator, select)
           call2 == ExpandSeeded(twin.arena, twin.random_generator, select)
       IN  /\ arena' = call1.arena
           /\ random_generator' = call1.random_generator
           /\ expand' = call1.ret
           /\ last' = [op |-> "expand", node |-> select, result |-> "Draw",
                       ret |-> call1.ret, factor |-> None]
           /\ twin' = [twin EXCEPT !.arena = call2.arena,
                                   !.random_generator = call2.random_generator,
                                   !.ret = call2.ret]
           /\ created' = IF call1.ret = select THEN created
                         ELSE Append(created, call1.arena[call1.ret + 1].unexpanded)
           /\ bp_starts' = IF call1.ret = select THEN bp_starts ELSE Append(bp_starts, 0)
    /\ pc' = "simulate"
    /\ UNCHANGED <<runs_done, select, simulate, rollout>>

\* simulate(expand) is entered on both trees; rollout holds the locals of
\* the call on the first tree, twin.rollout those of the call on the second
TwinSimulateBegin ==
    /\ pc = "simulate"
    /\ expand < Len(twin.arena)
    /\ rollout' = SimulateLocals(arena, random_generator, expand)
    /\ twin' = [twin EXCEPT
                    !.rollout = SimulateLocals(twin.arena, twin.random_generator, expand)]
    /\ pc' = "rollout"
    /\ UNCHANGED <<arena, created, bp_starts, last, runs_done, select, expand, simulate,
                   random_generator>>

\* one turn of the loop in both calls
TwinSimulateTurn ==
    /\ pc = "rollout"
    /\ rollout.ret = "running" \/ twin.rollout.ret = "running"
    /\ rollout' = RolloutTurn(rollout)
    /\ twin' = [twin EXCEPT !.rollout = RolloutTurn(@)]
    /\ UNCHANGED <<arena, created, bp_starts, last, pc, runs_done, select, expand,
                   simulate, random_generator>>

\* both calls have returned
TwinSimulateReturn ==
    /\ pc = "rollout"
    /\ rollout.ret # "running"
    /\ twin.rollout.ret # "running"
    /\ simulate' = rollout.ret
    /\ random_generator' = rollout.random_generator
    /\ last' = [op |-> "simulate", node |-> expand, result |-> rollout.ret,
                ret |-> None, factor |-> None]
    /\ twin' = [twin EXCEPT !.random_generator = twin.rollout.random_generator,
                            !.ret = twin.rollout.ret,
                            !.rollout = NoRollout]
    /\ rollout' = NoRollout
    /\ pc' = "backpropagate"
    /\ UNCHANGED <<arena, created, bp_starts, runs_done, select, expand>>

\* backpropagate(expand, simulate) on both trees
TwinBackpropagate ==
    /\ pc = "backpropagate"
    /\ expand < Len(twin.arena)
    /\ arena' = BackpropArena(arena, expand, simulate)
    /\ bp_starts' = [bp_starts EXCEPT ![expand + 1] = @ + 1]
    /\ last' = [op |-> "backpropagate", node |-> expand, result |-> simulate,
                ret |-> None, factor |-> None]
    /\ twin' = [twin EXCEPT !.arena = BackpropArena(twin.arena, expand, simulate),
                            !.ret = None]
    /\ runs_done' = runs_done + 1
    /\ pc' = "select"
    /\ UNCHANGED <<created, select, expand, simulate, rollout, random_generator>>

NextTwin ==
    \/ TwinSelect \/ TwinExpand
    \/ TwinSimulateBegin \/ TwinSimulateTurn \/ TwinSimulateReturn
    \/ TwinBackpropagate

SpecTwin == InitTwin /\ [][NextTwin]_vars

(***************************************************************************)
(* A caller that grows one line of play: every expand call is made on the  *)
(* newest node of the arena, and the generator hands expand the value 0,   *)
(* so the first unexpanded action is taken.  The line is long enough for   *)
(* the 50-move counter of ChessState to reach its threshold.               *)
(***************************************************************************)
\* expand(arena.len() - 1) on a node without unexpanded actions
DeepExpandTerminal == ExpandTerminal(ArenaLen - 1) /\ CallerIdle

\* expand(arena.len() - 1) on a node with unexpanded actions, gen_range
\* returning 0
DeepExpandNew ==
    /\ ArenaLen < DeepNodes
    /\ Len(Node(ArenaLen - 1).unexpanded) # 0
    /\ arena' = ExpandArena(arena, ArenaLen - 1, 0)
    /\ created' = Append(created, arena'[Len(arena')].unexpanded)
    /\ bp_starts' = Append(bp_starts, 0)
    /\ last' = [op |-> "expand", node |-> ArenaLen - 1, result |-> "Draw",
                ret |-> ArenaLen, factor |-> None]
    /\ CallerIdle

NextDeep == DeepExpandTerminal \/ DeepExpandNew

SpecDeep == Init /\ [][NextDeep]_vars

(***************************************************************************)
(* mcts.rs, mod tests : the hand-built tree of the tests, over             *)
(* PlaceHolderState, and the calls the tests make on it.                   *)
(***************************************************************************)
\* a node as test_generate_example_tree pushes it: last_action_made 0,
\* draws 0
ExampleNode(depth_counter, parent, expanded, unexpanded, wins, sims) ==
    [game_state |-> [last_action_made |-> 0, depth_counter |-> depth_counter],
     parent     |-> parent,
     expanded   |-> expanded,
     unexpanded |-> unexpanded,
     wins |-> wins, draws |-> 0, sims |-> sims]

\* tests::test_generate_example_tree
test_generate_example_tree ==
    << ExampleNode(0, None, <<1, 8>>,    <<>>,       5, 12),
       ExampleNode(1, 0,    <<2, 4, 5>>, <<>>,       5, 8),
       ExampleNode(2, 1,    <<3>>,       <<>>,       1, 2),
       ExampleNode(3, 2,    <<>>,        <<10, 11>>, 1, 1),
       ExampleNode(2, 1,    <<>>,        <<>>,       0, 1),
       ExampleNode(2, 1,    <<6, 7>>,    <<>>,       2, 4),
       ExampleNode(3, 5,    <<>>,        <<>>,       0, 1),
       ExampleNode(3, 5,    <<>>,        <<>>,       2, 2),
       ExampleNode(1, 0,    <<9, 10>>,   <<>>,       2, 4),
       ExampleNode(2, 8,    <<>>,        <<>>,       1, 1),
       ExampleNode(2, 8,    <<11>>,      <<>>,       1, 2),
       ExampleNode(3, 10,   <<>>,        <<>>,       0, 1) >>

\* tests::test_select : tree.arena[1].wins = 8
ExampleSetWins(a) == [a EXCEPT ![2].wins = 8]

InitExample ==
    /\ arena = test_generate_example_tree
    /\ created = [i \in 1..Len(arena) |-> arena[i].unexpanded]
    /\ bp_starts = [i \in 1..Len(arena) |-> 0]
    /\ last = NoCall
    /\ pc = "select"
    /\ runs_done = 0
    /\ select = 0
    /\ expand = 0
    /\ simulate = "Draw"
    /\ rollout = NoRollout
    /\ random_generator = NotFollowed
    /\ twin = NotFollowed

\* tests::test_select : the write to node 1 between the two select calls
CallSetWins ==
    /\ arena # ExampleSetWins(arena)
    /\ arena' = ExampleSetWins(arena)
    /\ last' = [op |-> "set_wins", node |-> 1, result |-> "Draw", ret |-> None,
                factor |-> None]
    /\ TreeHistoryIdle /\ CallerIdle

\* tests::test_expand : expand on a node of the tree; PlaceHolderState has no
\* legal actions, so the tree grows by the two actions of node 3 at most
CallExpandExample == \E n \in Indices : (ExpandTerminal(n) \/ ExpandNew(n)) /\ CallerIdle

NextExample ==
    \/ CallSetWins \/ CallExpandExample
    \/ CallSelect \/ CallGetMaxUctChild \/ CallUct

SpecExample == InitExample /\ [][NextExample]_vars

(***************************************************************************)
(* example/main.rs : the caller loop of main on one tree,                  *)
(*   for _i in 0..runs { select; expand; simulate; backpropagate }         *)
(* one action per call.                                                    *)
(***************************************************************************)
\* let select = tree.select(0, None);
LoopSelect ==
    /\ pc = "select"
    /\ runs_done < Runs
    /\ Select(arena, 0, None) # Diverges
    /\ select' = Select(arena, 0, None)
    /\ last' = [op |-> "select", node |-> 0, result |-> "Draw", ret |-> select', factor |-> None]
    /\ pc' = "expand"
    /\ UNCHANGED <<arena, created, bp_starts, runs_done, expand, simulate, rollout, random_generator, twin>>

\* let expand = tree.expand(select);
LoopExpand ==
    /\ pc = "expand"
    /\ ExpandTerminal(select) \/ ExpandNew(select)
    /\ expand' = last'.ret
    /\ pc' = "simulate"
    /\ UNCHANGED <<runs_done, select, simulate, rollout, random_generator, twin>>

\* let simulate = tree.simulate(expand);
LoopSimulate ==
    /\ pc = "simulate"
    /\ \E res \in SimulateResults(arena, expand) :
          /\ simulate' = res
          /\ last' = [op |-> "simulate", node |-> expand, result |-> res, ret |-> None, factor |-> None]
    /\ pc' = "backpropagate"
    /\ UNCHANGED <<arena, created, bp_starts, runs_done, select, expand, rollout, random_generator, twin>>

\* the loop with a slip: backpropagate starts at the node select returned,
\* not at the node expand returned
LoopBackpropagateFromSelect ==
    /\ pc = "backpropagate"
    /\ Backpropagate(select, simulate)
    /\ runs_done' = runs_done + 1
    /\ pc' = "select"
    /\ UNCHANGED <<select, expand, simulate, rollout, random_generator, twin>>

\* tree.backpropagate(expand, simulate); and the loop counter advances
LoopBackpropagate ==
    /\ pc = "backpropagate"
    /\ Backpropagate(expand, simulate)
    /\ runs_done' = runs_done + 1
    /\ pc' = "select"
    /\ UNCHANGED <<select, expand, simulate, rollout, random_generator, twin>>

\* after the loop: tree.select(0, Some(0.0))
LoopFinalSelect ==
    /\ pc = "select"
    /\ runs_done = Runs
    /\ Select(arena, 0, 0) # Diverges
    /\ select' = Select(arena, 0, 0)
    /\ last' = [op |-> "select", node |-> 0, result |-> "Draw", ret |-> select', factor |-> 0]
    /\ pc' = "trace_path"
    /\ UNCHANGED <<arena, created, bp_starts, runs_done, expand, simulate, rollout, random_generator, twin>>

\* let path = tree.trace_path(..)
LoopTracePath ==
    /\ pc = "trace_path"
    /\ last' = [op |-> "trace_path", node |-> select, result |-> "Draw",
                ret |-> TracePath(arena, select), factor |-> None]
    /\ pc' = "choose"
    /\ UNCHANGED <<arena, created, bp_starts, runs_done, select, expand, simulate, rollout, random_generator, twin>>

\* let action = &tree.arena[path[0]]; on a path with a first element
LoopChoose ==
    /\ pc = "choose"
    /\ Len(last.ret) > 0
    /\ last' = [op |-> "choose", node |-> last.ret[1], result |-> "Draw",
                ret |-> Node(last.ret[1]).game_state.last_move, factor |-> None]
    /\ pc' = "done"
    /\ UNCHANGED <<arena, created, bp_starts, runs_done, select, expand, simulate, rollout, random_generator, twin>>

\* path[0] on an empty path: index out of bounds, main panics
LoopChoosePanics ==
    /\ pc = "choose"
    /\ Len(last.ret) = 0
    /\ last' = [op |-> "choose", node |-> None, result |-> "Draw",
                ret |-> None, factor |-> None]
    /\ pc' = "panicked"
    /\ UNCHANGED <<arena, created, bp_starts, runs_done, select, expand, simulate, rollout, random_generator, twin>>

NextLoop ==
    \/ LoopSelect \/ LoopExpand \/ LoopSimulate \/ LoopBackpropagate
    \/ LoopFinalSelect \/ LoopTracePath \/ LoopChoose \/ LoopChoosePanics

SpecLoop == Init /\ [][NextLoop]_vars

(***************************************************************************)
(* Tree relations used by the properties.                                  *)
(***************************************************************************)
\* anc is n or an ancestor of n, following at most fuel parent links
RECURSIVE ClimbsTo(_, _, _)
ClimbsTo(anc, n, fuel) ==
    \/ n = anc
    \/ /\ fuel > 0
       /\ n \in Indices
       /\ Node(n).parent # None
       /\ ClimbsTo(anc, Node(n).parent, fuel - 1)

\* the nodes of the subtree rooted at i, i included
Subtree(i) == {j \in Indices : ClimbsTo(i, j, ArenaLen)}

\* the number of backpropagate calls that started at a node of S
RECURSIVE StartsIn(_)
StartsIn(S) ==
    IF S = {} THEN 0
    ELSE LET j == CHOOSE j \in S : TRUE
         IN  bp_starts[j + 1] + StartsIn(S \ {j})

\* the actions that produced the expanded children of node i, in order
ChildActions(i) ==
    [k \in 1..Len(Node(i).expanded) |-> Node(Node(i).expanded[k]).game_state.last_move]

\* the places (i, k) where index j is stored in an expanded list
StoredAt(j) ==
    {p \in UNION {{<<i, k>> : k \in 1..Len(Node(i).expanded)} : i \in Indices} :
        Node(p[1]).expanded[p[2]] = j}

(***************************************************************************)
(* C1: for every node, the actions of its expanded children and its        *)
(* unexpanded actions are exactly the legal-action list computed at its    *)
(* creation, no action is in both, and no step changes                     *)
(* |expanded| + |unexpanded| or adds an action to unexpanded.              *)
(***************************************************************************)
C1_Accounted ==
    \A i \in Indices :
        /\ Range(ChildActions(i)) \cup Range(Node(i).unexpanded) = Range(created[i + 1])
        /\ Range(ChildActions(i)) \cap Range(Node(i).unexpanded) = {}
        /\ Len(Node(i).expanded) + Len(Node(i).unexpanded) = Len(created[i + 1])
        /\ created[i + 1] = generate_legal_actions(Node(i).game_state)

C1_NothingAddedBack ==
    \A i \in Indices :
        /\ Range(Node(i).unexpanded') \subseteq Range(Node(i).unexpanded)
        /\ Len(Node(i).expanded') + Len(Node(i).unexpanded')
              = Len(Node(i).expanded) + Len(Node(i).unexpanded)

\* C1: the accounting holds in every state and no step adds an action back
C1_LegalActionsAccounted == [] C1_Accounted /\ [][C1_NothingAddedBack]_vars

C1_Witness ==
    \E i \in Indices : Len(Node(i).expanded) > 0 /\ Len(Node(i).unexpanded) > 0

(***************************************************************************)
(* C2: every arena index j > 0 is stored exactly once, in the expanded     *)
(* list of exactly one node, and that node is arena[j].parent; index 0 is  *)
(* the only node whose parent is None.                                     *)
(***************************************************************************)
C2_ParentChildAgree ==
    /\ Node(0).parent = None
    /\ StoredAt(0) = {}
    /\ \A j \in Indices \ {0} :
          /\ Node(j).parent # None
          /\ Cardinality(StoredAt(j)) = 1
          /\ \A p \in StoredAt(j) : p[1] = Node(j).parent

C2_Witness == ArenaLen = 3 /\ Node(0).expanded = <<1, 2>>

(***************************************************************************)
(* C3: every non-root node's parent index is strictly smaller than its own *)
(* index, and following parent links from any node reaches index 0.        *)
(***************************************************************************)
C3_ParentBelowChild ==
    /\ \A j \in Indices \ {0} : Node(j).parent \in 0..(j - 1)
    /\ \A j \in Indices : ClimbsTo(0, j, ArenaLen)

C3_Witness == ArenaLen = 3 /\ Node(2).parent = 1 /\ Node(1).parent = 0

(***************************************************************************)
(* C4: no step shrinks the arena; only expand lengthens it, by exactly     *)
(* one, and by zero on a node without unexpanded actions; game_state and   *)
(* parent at an existing index never change.                               *)
(***************************************************************************)
C4_Step ==
    /\ ArenaLen' >= ArenaLen
    /\ \A i \in Indices :
          /\ Node(i).game_state' = Node(i).game_state
          /\ Node(i).parent' = Node(i).parent
    /\ ArenaLen' # ArenaLen => last'.op = "expand" /\ ArenaLen' = ArenaLen + 1
    /\ (last'.op = "expand" /\ Len(Node(last'.node).unexpanded) = 0) => ArenaLen' = ArenaLen

\* C4: every step keeps the arena append-only and index-stable
C4_ArenaAppendOnly == [][C4_Step]_vars

C4_Witness == ArenaLen >= 2 /\ last.op = "backpropagate" /\ last.node >= 1

(***************************************************************************)
(* C5: one backpropagate(n, result) adds exactly 1 to sims at n and at     *)
(* every ancestor of n, root included, whatever the result; so a node's    *)
(* sims is the number of backpropagations whose path passed through it.    *)
(***************************************************************************)
C5_Step ==
    last'.op = "backpropagate" =>
        \A i \in Indices :
            ClimbsTo(i, last'.node, ArenaLen) => Node(i).sims' = Node(i).sims + 1

C5_Counted == \A i \in Indices : Node(i).sims = StartsIn(Subtree(i))

\* C5: sims counts the backpropagations through a node, one per call
C5_SimsCountBackpropagations == [] C5_Counted /\ [][C5_Step]_vars

C5_Witness ==
    /\ last.op = "backpropagate"
    /\ last.result = "Draw"
    /\ last.node = 2
    /\ Node(2).parent = 1
    /\ Node(0).sims = 3
    /\ Node(1).sims = 2

(***************************************************************************)
(* C6: between complete cycles of the caller loop, each node's sims is the *)
(* number of cycles whose backpropagation started in the node's subtree,   *)
(* and the root's sims is the number of cycles run.                        *)
(***************************************************************************)
C6_SimsCountCycles ==
    pc = "select" =>
        /\ Node(0).sims = runs_done
        /\ StartsIn(Indices) = runs_done
        /\ \A i \in Indices : Node(i).sims = StartsIn(Subtree(i))

C6_Witness ==
    /\ pc = "select"
    /\ runs_done = Runs
    /\ \E i \in Indices \ {0} : Node(i).sims >= 2 /\ Len(Node(i).expanded) > 0

(***************************************************************************)
(* C7: every node satisfies wins + draws <= sims.                          *)
(***************************************************************************)
C7_WinsDrawsWithinSims ==
    \A i \in Indices : Node(i).wins + Node(i).draws <= Node(i).sims

C7_Witness ==
    \E i \in Indices :
        Node(i).wins >= 1 /\ Node(i).draws >= 1 /\ Node(i).wins + Node(i).draws = Node(i).sims

(***************************************************************************)
(* C8: at every node backpropagate visits, a Draw adds 1 to draws and      *)
(* leaves wins; a decisive result leaves draws and adds 1 to wins exactly  *)
(* when FirstPlayerWin meets a node with the second player to move, or     *)
(* SecondPlayerWin a node with the first player to move.  So               *)
(* backpropagate(0, SecondPlayerWin) on a root with the first player to    *)
(* move adds 1 to the root's wins and sims.                                *)
(***************************************************************************)
C8_Credited(i, res) ==
    \/ res = "FirstPlayerWin" /\ Node(i).game_state.board.side_to_move = "Black"
    \/ res = "SecondPlayerWin" /\ Node(i).game_state.board.side_to_move = "White"

C8_Step ==
    last'.op = "backpropagate" =>
        /\ \A i \in Indices :
              ClimbsTo(i, last'.node, ArenaLen) =>
                  /\ last'.result = "Draw" =>
                        /\ Node(i).draws' = Node(i).draws + 1
                        /\ Node(i).wins' = Node(i).wins
                  /\ last'.result # "Draw" =>
                        /\ Node(i).draws' = Node(i).draws
                        /\ Node(i).wins' =
                              Node(i).wins + (IF C8_Credited(i, last'.result) THEN 1 ELSE 0)
        /\ (/\ last'.node = 0
            /\ last'.result = "SecondPlayerWin"
            /\ side_to_move(Node(0).game_state)) =>
                /\ Node(0).wins' = Node(0).wins + 1
                /\ Node(0).sims' = Node(0).sims + 1

\* C8: every backpropagate step follows the parity rule
C8_ParityRule == [][C8_Step]_vars

C8_Witness ==
    /\ last = [op |-> "backpropagate", node |-> 0, result |-> "SecondPlayerWin", ret |-> None, factor |-> None]
    /\ side_to_move(Node(0).game_state)
    /\ Node(0).wins = 1
    /\ Node(0).sims = 1

(***************************************************************************)
(* C9: expand on a leaf with an unexpanded action appends exactly one node *)
(* at the old arena length, with parent = leaf, expanded empty, zero       *)
(* counters, game_state = the leaf's state with the chosen action applied  *)
(* and unexpanded = that state's legal actions; removes exactly the chosen *)
(* action from the leaf's unexpanded; appends the new index at the end of  *)
(* the leaf's expanded; returns the new index.                             *)
(***************************************************************************)
C9_Step ==
    (last'.op = "expand" /\ Len(Node(last'.node).unexpanded) > 0) =>
        LET leaf == Node(last'.node)
            new == arena'[ArenaLen + 1]
        IN  /\ ArenaLen' = ArenaLen + 1
            /\ last'.ret = ArenaLen
            /\ new.parent = last'.node
            /\ new.expanded = <<>>
            /\ new.wins = 0 /\ new.draws = 0 /\ new.sims = 0
            /\ \E k \in 1..Len(leaf.unexpanded) :
                  /\ new.game_state = apply_action(leaf.game_state, leaf.unexpanded[k])
                  /\ new.game_state.last_move = leaf.unexpanded[k]
                  /\ new.unexpanded = generate_legal_actions(new.game_state)
                  /\ arena'[last'.node + 1].unexpanded =
                        SubSeq(leaf.unexpanded, 1, k - 1)
                           \o SubSeq(leaf.unexpanded, k + 1, Len(leaf.unexpanded))
            /\ arena'[last'.node + 1].expanded = Append(leaf.expanded, ArenaLen)
            /\ \A i \in Indices \ {last'.node} : Node(i)' = Node(i)

\* C9: every expand step on a leaf with an unexpanded action appends one child
C9_ExpandAppendsOneChild == [][C9_Step]_vars

C9_Witness ==
    /\ last.op = "expand"
    /\ last.ret = 2
    /\ last.node = 0
    /\ Node(0).expanded = <<1, 2>>
    /\ Len(Node(0).unexpanded) = 1

(***************************************************************************)
(* C10: expand on a node whose unexpanded list is empty returns that node  *)
(* index and changes nothing in the arena, each time it is called.         *)
(***************************************************************************)
C10_Step ==
    (last'.op = "expand" /\ Len(Node(last'.node).unexpanded) = 0) =>
        /\ last'.ret = last'.node
        /\ arena' = arena

\* C10: every expand step on a node without unexpanded actions changes nothing
C10_ExpandTerminalIdempotent == [][C10_Step]_vars

C10_Witness ==
    /\ last.op = "expand"
    /\ last.ret = last.node
    /\ Len(Node(last.node).unexpanded) = 0
    /\ Len(Node(last.node).expanded) = 2

(***************************************************************************)
(* C11: repeated expand calls on a leaf that was created with m distinct   *)
(* legal actions create children for pairwise different actions; each of   *)
(* the first m calls creates one child, unexpanded is empty exactly when m *)
(* children exist, and a call after that creates none, whatever the random *)
(* choices.                                                                *)
(***************************************************************************)
C11_Distinct ==
    \A i \in Indices :
        /\ \A k1, k2 \in 1..Len(Node(i).expanded) :
              k1 # k2 => ChildActions(i)[k1] # ChildActions(i)[k2]
        /\ Len(Node(i).unexpanded) = 0 <=> Len(Node(i).expanded) = Len(created[i + 1])

C11_Step ==
    last'.op = "expand" =>
        IF Len(Node(last'.node).expanded) < Len(created[last'.node + 1])
        THEN /\ ArenaLen' = ArenaLen + 1
             /\ Len(arena'[last'.node + 1].expanded) = Len(Node(last'.node).expanded) + 1
             /\ Len(arena'[last'.node + 1].unexpanded) = Len(Node(last'.node).unexpanded) - 1
        ELSE /\ ArenaLen' = ArenaLen
             /\ last'.ret = last'.node

\* C11: m expand calls exhaust a leaf with m actions, never repeating one
C11_ExpandExhaustsLeaf == [] C11_Distinct /\ [][C11_Step]_vars

C11_Witness ==
    /\ last.op = "expand"
    /\ last.node = 0
    /\ last.ret = 0
    /\ Len(created[1]) = 2
    /\ Node(0).unexpanded = <<>>
    /\ ChildActions(0)[1] # ChildActions(0)[2]

(***************************************************************************)
(* C12: whenever select(start, c) returns a node r, r has an unexpanded    *)
(* action or has neither unexpanded actions nor expanded children; r is    *)
(* start or a descendant of start; and every node on the path from start   *)
(* to r's parent has no unexpanded actions and was left through its        *)
(* max-UCT child.                                                          *)
(***************************************************************************)
\* n is start, or is reached from start by steps from a node without
\* unexpanded actions to the child get_max_uct_child names
RECURSIVE C12_Descends(_, _, _, _)
C12_Descends(start, n, c, fuel) ==
    \/ n = start
    \/ /\ fuel > 0
       /\ Node(n).parent # None
       /\ Len(Node(Node(n).parent).unexpanded) = 0
       /\ get_max_uct_child(arena, Node(n).parent, c) = n
       /\ C12_Descends(start, Node(n).parent, c, fuel - 1)

C12_SelectContract ==
    last.op = "select" =>
        /\ \/ Len(Node(last.ret).unexpanded) > 0
           \/ Len(Node(last.ret).unexpanded) = 0 /\ Len(Node(last.ret).expanded) = 0
        /\ last.ret \in Subtree(last.node)
        /\ C12_Descends(last.node, last.ret, last.factor, ArenaLen)

(***************************************************************************)
(* C13: get_max_uct_child(parent, c), for a parent with expanded children, *)
(* returns a child of parent whose UCT is greater than or equal to the UCT *)
(* of every other child in parent.expanded, and among children with equal  *)
(* maximal UCT the one that comes first in parent.expanded.                *)
(***************************************************************************)
\* a >= b on f32
C13_Geq(a, b) == a.kind # "nan" /\ b.kind # "nan" /\ ~F32Greater(b, a)

C13_MaxUctChild ==
    (last.op = "get_max_uct_child" /\ Len(Node(last.node).expanded) > 0) =>
        LET exp == Node(last.node).expanded
        IN  \E k \in 1..Len(exp) :
                /\ exp[k] = last.ret
                /\ \A j \in 1..Len(exp) :
                      C13_Geq(uct(arena, exp[k], last.factor), uct(arena, exp[j], last.factor))
                /\ \A j \in 1..(k - 1) :
                      F32Greater(uct(arena, exp[k], last.factor), uct(arena, exp[j], last.factor))

(***************************************************************************)
(* C14: on the example tree with c = sqrt(2), select(0, c) returns node 9, *)
(* and after setting node 1's wins to 8 it returns node 4; uct on the      *)
(* example tree gives, to three decimals, UCT(1)=1.413, UCT(8)=1.615,      *)
(* UCT(9)=2.665, UCT(10)=1.677, UCT(2)=1.942, UCT(4)=2.039, UCT(5)=1.520.  *)
(***************************************************************************)
\* format!("{:.3}", v) of a finite value, in thousandths
C14_Milli(value) == (value.v + 50) \div 100

\* the arena is the given tree, whatever expand added below node 3
C14_TreeIs(tree) ==
    \A i \in 1..Len(tree) : i # 4 => arena[i] = tree[i]

C14_ExampleValues ==
    [n \in {1, 8, 9, 10, 2, 4, 5} |->
        CASE n = 1 -> 1413 [] n = 8 -> 1615 [] n = 9 -> 2665 [] n = 10 -> 1677
          [] n = 2 -> 1942 [] n = 4 -> 2039 [] n = 5 -> 1520]

C14_ExampleSelect ==
    /\ (last.op = "select" /\ last.node = 0 /\ last.factor = 2) =>
          /\ C14_TreeIs(test_generate_example_tree) => last.ret = 9
          /\ C14_TreeIs(ExampleSetWins(test_generate_example_tree)) => last.ret = 4
    /\ (/\ last.op = "uct" /\ last.factor = 2 /\ last.node \in DOMAIN C14_ExampleValues
        /\ C14_TreeIs(test_generate_example_tree)) =>
          /\ last.ret.kind = "fin"
          /\ C14_Milli(last.ret) = C14_ExampleValues[last.node]

C14_Witness ==
    /\ last.op = "select" /\ last.node = 0 /\ last.factor = 2 /\ last.ret = 4
    /\ arena = ExampleSetWins(test_generate_example_tree)

(***************************************************************************)
(* C15: one call of simulate never performs more than 200 applications of  *)
(* apply_action, for any game and any start node.                          *)
(***************************************************************************)
C15_AtMostCapApplications == rollout.applied <= 200

(***************************************************************************)
(* C16: simulate returns result() of the last state its rollout reached,   *)
(* and calls result() only on a state that has no legal actions or whose   *)
(* status_with_moves_left() is false; the only other return value is Draw, *)
(* returned when the rollout cap stops the rollout.                        *)
(***************************************************************************)
C16_SimulateReturns ==
    /\ rollout.pc = "returned" =>
          /\ rollout.ret = result(rollout.game_state)
          /\ \/ Len(generate_legal_actions(rollout.game_state)) = 0
             \/ status_with_moves_left(rollout.game_state) = FALSE
    /\ rollout.pc = "capped" =>
          /\ rollout.ret = "Draw"
          /\ rollout.count > RolloutCap
    /\ rollout.pc \in {"returned", "capped", "loop", "idle"}

\* a rollout that played on and ended by the game with a decisive result
C16_Witness ==
    /\ rollout.pc = "returned"
    /\ rollout.applied > 1
    /\ rollout.ret = "SecondPlayerWin"

(***************************************************************************)
(* C17: simulate changes nothing in the tree: the arena length and every   *)
(* node's game_state, parent, expanded, unexpanded, wins, draws and sims   *)
(* are the same after the call as before.  select and trace_path likewise  *)
(* leave the whole tree unchanged.                                         *)
(***************************************************************************)
C17_ReadsLeaveTree ==
    [][last'.op \in {"simulate", "select", "trace_path"} =>
          /\ Len(arena') = Len(arena)
          /\ \A i \in 1..Len(arena) : arena'[i] = arena[i]]_vars

\* simulate has run on a node below the root whose rollout can play on
C17_Witness ==
    /\ last.op = "simulate"
    /\ last.node # 0
    /\ RolloutContinues(Node(last.node).game_state)

(***************************************************************************)
(* C18: trace_path(n) returns the empty sequence when n is the root; for   *)
(* any other node it returns the path from the root's child down to n,     *)
(* top-down: the first element is a direct child of the root, the last     *)
(* element is n, each later element's parent is the element before it,     *)
(* and the root is not included.                                           *)
(***************************************************************************)
C18_TracePathTopDown ==
    last.op = "trace_path" =>
        IF last.node = 0
        THEN last.ret = <<>>
        ELSE /\ Len(last.ret) >= 1
             /\ Node(last.ret[1]).parent = 0
             /\ last.ret[Len(last.ret)] = last.node
             /\ \A k \in 2..Len(last.ret) : Node(last.ret[k]).parent = last.ret[k - 1]
             /\ \A k \in 1..Len(last.ret) : last.ret[k] # 0

\* trace_path of a grandchild of the root
C18_Witness ==
    /\ last.op = "trace_path"
    /\ Len(last.ret) = 2
    /\ last.ret[2] = last.node

(***************************************************************************)
(* C19: calling uct on a node that has no parent (the root) fails with a   *)
(* panic instead of returning a value, and leaves the tree unchanged.      *)
(***************************************************************************)
C19_Panics ==
    (last.op = "uct" /\ Node(last.node).parent = None) => last.ret = Panic

C19_TreeKept ==
    (last'.op = "uct" /\ arena[last'.node + 1].parent = None) => arena' = arena

C19_UctRootPanics == [] C19_Panics /\ [][C19_TreeKept]_vars

\* uct was called on the root of a tree that has children
C19_Witness ==
    /\ last.op = "uct"
    /\ last.node = 0
    /\ last.ret = Panic
    /\ Len(Node(0).expanded) > 0

(***************************************************************************)
(* C20: in the caller loop, for every position the loop builds a tree for, *)
(* after the iteration budget of cycles the path reconstructed from        *)
(* select(0, Some(0.0)) is non-empty, so reading its first element as the  *)
(* chosen move always succeeds.                                            *)
(***************************************************************************)
C20_PathNonEmpty ==
    /\ pc = "choose" => Len(last.ret) > 0
    /\ pc # "panicked"

(***************************************************************************)
(* C21: after the search cycles, selection from the root with exploration  *)
(* factor 0.0 goes first to the root's most-visited child: the first       *)
(* element of the reconstructed path is the root child with the greatest   *)
(* sims.                                                                   *)
(***************************************************************************)
C21_FirstIsMostVisited ==
    (pc = "choose" /\ Len(last.ret) > 0) =>
        \A k \in 1..Len(Node(0).expanded) :
            Node(last.ret[1]).sims >= Node(Node(0).expanded[k]).sims

(***************************************************************************)
(* C21, amended: the first element of the reconstructed path is the root   *)
(* child with the greatest wins / sims, the first such child in the root's *)
(* expanded list; its sims need not be the greatest.                       *)
(***************************************************************************)
\* wins(i) / sims(i) > wins(j) / sims(j), for visited nodes
C21_RatioGreater(i, j) == Node(i).wins * Node(j).sims > Node(j).wins * Node(i).sims

C21_FirstIsBestRatio ==
    (pc = "choose" /\ Len(last.ret) > 0) =>
        \E k \in 1..Len(Node(0).expanded) :
            /\ Node(0).expanded[k] = last.ret[1]
            /\ \A j \in 1..Len(Node(0).expanded) :
                  ~C21_RatioGreater(Node(0).expanded[j], last.ret[1])
            /\ \A j \in 1..(k - 1) :
                  C21_RatioGreater(last.ret[1], Node(0).expanded[j])

\* the chosen child has the best ratio and is not the most visited
C21_Witness ==
    /\ pc = "choose"
    /\ Len(last.ret) > 0
    /\ \E k \in 1..Len(Node(0).expanded) :
          Node(Node(0).expanded[k]).sims > Node(last.ret[1]).sims

(***************************************************************************)
(* C22: status_with_moves_left() returns true if the game has ended        *)
(* although legal moves remain and false otherwise; for ChessState it      *)
(* returns true exactly when the 50-move counter has reached 50 plies      *)
(* without a capture or pawn move.  Stated on the states simulate tests    *)
(* that have legal actions.                                                *)
(***************************************************************************)
C22_TrueMeansEnded ==
    (/\ rollout.pc = "loop"
     /\ Len(generate_legal_actions(rollout.game_state)) > 0) =>
        (status_with_moves_left(rollout.game_state) = TRUE
            <=> rollout.game_state.stalemate_50_move_counter >= 50)

C24_BackpropagateFrame ==
    [][last'.op = "backpropagate" =>
          /\ Len(arena') = Len(arena)
          /\ \A i \in Indices :
                /\ arena'[i + 1].parent = Node(i).parent
                /\ arena'[i + 1].expanded = Node(i).expanded
                /\ arena'[i + 1].unexpanded = Node(i).unexpanded
                /\ arena'[i + 1].game_state = Node(i).game_state
                /\ ~ClimbsTo(i, last'.node, ArenaLen) => arena'[i + 1] = Node(i)]_vars

\* backpropagate started below the root in a tree with a node off the path,
\* and that node has been visited before
C24_Witness ==
    /\ last.op = "backpropagate"
    /\ last.node # 0
    /\ \E i \in Indices : ~ClimbsTo(i, last.node, ArenaLen) /\ Node(i).sims > 0

(***************************************************************************)
(* C25: backpropagate, trace_path, select, expand and uct called with a    *)
(* node index that is not in the arena (index >= arena length) fail with a *)
(* panic before changing anything: no node's counters or lists and not the *)
(* arena length are modified, and no value is returned.                    *)
(***************************************************************************)
C25_Ops == {"backpropagate", "trace_path", "select", "expand", "uct"}

C25_Unchanged ==
    (last'.op \in C25_Ops /\ last'.node >= ArenaLen) =>
        /\ Len(arena') = Len(arena)
        /\ \A i \in 1..Len(arena) : arena'[i] = arena[i]

C25_Panicked ==
    (last.op \in C25_Ops /\ last.node >= ArenaLen) => last.ret = Panic

C25_OutOfRangePanics == [] C25_Panicked /\ [][C25_Unchanged]_vars

\* backpropagate was called past the end of a tree with visited nodes
C25_Witness ==
    /\ last.op = "backpropagate"
    /\ last.node >= ArenaLen
    /\ last.ret = Panic
    /\ ArenaLen > 1
    /\ Node(0).sims > 0

(***************************************************************************)
(* C26: the engine is deterministic given the seed: two trees built by     *)
(* with_capacity with the same seed (None counting as the fixed seed 0)    *)
(* and the same starting position, and driven by the same sequence of      *)
(* select / expand / simulate / backpropagate calls, return the same       *)
(* values at every call and hold identical arenas after every call.        *)
(***************************************************************************)
\* what the last call on the first tree returned
C26_Returned ==
    CASE last.op = "simulate"      -> last.result
      [] last.op = "backpropagate" -> None
      [] last.op = "with_capacity" -> None
      [] OTHER                     -> last.ret

C26_SameSeed ==
    \/ random_generator.seed = twin.random_generator.seed
    \/ {random_generator.seed, twin.random_generator.seed} = {None, 0}

\* two generators are in the same state
C26_SameGenerator(g1, g2) == g1.words = g2.words /\ g1.pos = g2.pos

C27_VisitedAtSelect ==
    pc = "select" =>
        /\ \A i \in Indices : i # 0 => Node(i).sims >= 1
        /\ \A i \in Indices : Len(Node(i).expanded) > 0 => Node(i).sims >= 1
        /\ \A i \in Indices : \A c \in ExplorationFactors :
              i # 0 => uct(arena, i, c).kind = "fin"

\* select is about to be called on a tree three levels deep
C27_Witness ==
    /\ pc = "select"
    /\ runs_done < Runs
    /\ \E i \in Indices : i # 0 /\ Node(i).parent # 0

(***************************************************************************)
(* C28: in the select -> expand -> simulate -> backpropagate cycle run     *)
(* from a fresh tree, select(0, c) always terminates: each descent step    *)
(* moves to a member of the current node's expanded list, which has a      *)
(* strictly greater index, so the loop ends after at most                  *)
(* (arena length - 1) steps.                                               *)
(***************************************************************************)
\* select's loop from node after `steps` descent steps: every further step
\* goes to an expanded child of greater index, and the loop returns with at
\* most ArenaLen - 1 steps taken
RECURSIVE C28_Descent(_, _, _)
C28_Descent(node, exploration_factor, steps) ==
    IF Len(Node(node).unexpanded) # 0 \/ Len(Node(node).expanded) = 0
    THEN steps <= ArenaLen - 1
    ELSE LET next == get_max_uct_child(arena, node, exploration_factor)
         IN  /\ next \in Range(Node(node).expanded)
             /\ next > node
             /\ C28_Descent(next, exploration_factor, steps + 1)

C28_SelectTerminates ==
    pc = "select" =>
        \A c \in ExplorationFactors :
            /\ Select(arena, 0, c) # Diverges
            /\ C28_Descent(0, c, 0)

\* select is about to be called on a tree where it descends two levels
C28_Witness ==
    /\ pc = "select"
    /\ \E c \in ExplorationFactors :
          Node(Select(arena, 0, c)).parent \notin {None, 0}

(***************************************************************************)
(* C29: for every tree reachable by any sequence of expand and             *)
(* backpropagate calls, get_max_uct_child(parent, c) on a parent with a    *)
(* non-empty expanded list returns an index that is a member of            *)
(* parent.expanded, including when a child has been expanded but not yet   *)
(* backpropagated (sims = 0); it never returns the fallback index 0 for    *)
(* such a parent.                                                          *)
(***************************************************************************)
C29_ReturnsExpandedChild ==
    \A parent \in Indices : \A c \in ExplorationFactors :
        Len(Node(parent).expanded) > 0 =>
            get_max_uct_child(arena, parent, c) \in Range(Node(parent).expanded)

(***************************************************************************)
(* C30: between complete select -> expand -> simulate -> backpropagate     *)
(* cycles run from a fresh tree, every non-root node that had at least one *)
(* legal action at creation satisfies                                      *)
(* sims = 1 + (sum of its expanded children's sims), and a root with at    *)
(* least one legal action satisfies                                        *)
(* sims = (sum of its expanded children's sims): such a node is the start  *)
(* of a backpropagation exactly once (never, for the root).                *)
(***************************************************************************)
\* the sum of sims over the children expanded[k..]
RECURSIVE C30_SumSims(_, _)
C30_SumSims(expanded, k) ==
    IF k > Len(expanded) THEN 0
    ELSE Node(expanded[k]).sims + C30_SumSims(expanded, k + 1)

C30_SimsIsSumOfChildren ==
    pc = "select" =>
        \A i \in Indices :
            Len(created[i + 1]) >= 1 =>
                IF i = 0
                THEN /\ bp_starts[i + 1] = 0
                     /\ Node(i).sims = C30_SumSims(Node(i).expanded, 1)
                ELSE /\ bp_starts[i + 1] = 1
                     /\ Node(i).sims = 1 + C30_SumSims(Node(i).expanded, 1)

\* between two cycles a non-root node with legal actions has two children
\* that were visited
C30_Witness ==
    /\ pc = "select"
    /\ runs_done >= 3
    /\ \E i \in Indices :
          /\ i # 0
          /\ Len(created[i + 1]) >= 1
          /\ Len(Node(i).expanded) >= 1
          /\ Node(i).sims >= 2
    /\ Len(Node(0).expanded) >= 2

(***************************************************************************)
(* C31: the tree never grows past a finished game: expand never creates a  *)
(* child of a node whose game state is over, whether it is over because it *)
(* has no legal actions or because status_with_moves_left() reports the    *)
(* game ended with moves left (for ChessState, 50-move counter >= 50).     *)
(***************************************************************************)
\* the game of a state is over: simulate's loop would not make a move in it
C31_GameOver(game_state) == ~RolloutContinues(game_state)

C31_NoChildOfFinishedGame ==
    \A i \in Indices :
        Node(i).parent # None => ~C31_GameOver(Node(Node(i).parent).game_state)

(***************************************************************************)
(* C32: for a game whose side_to_move() alternates on every apply_action,  *)
(* one backpropagate call with a decisive result credits the win to        *)
(* exactly one of every parent-child pair on the path: wins is incremented *)
(* at a path node if and only if it is not incremented at that node's      *)
(* parent, and the credited nodes are those reached by a move of the       *)
(* winning player.                                                         *)
(***************************************************************************)
\* the player that made the move leading to the non-root node i is the
\* first player
C32_ReachedByFirstPlayer(i) == side_to_move(Node(Node(i).parent).game_state)

C32_CreditAlternates ==
    [][(last'.op = "backpropagate" /\ last'.result # "Draw") =>
          \A i \in Indices :
              (ClimbsTo(i, last'.node, ArenaLen) /\ Node(i).parent # None) =>
                  LET parent == Node(i).parent
                      credited == arena'[i + 1].wins = Node(i).wins + 1
                      parent_credited == arena'[parent + 1].wins = Node(parent).wins + 1
                  IN  /\ side_to_move(Node(i).game_state)
                            # side_to_move(Node(parent).game_state)
                      /\ ~credited => arena'[i + 1].wins = Node(i).wins
                      /\ ~parent_credited => arena'[parent + 1].wins = Node(parent).wins
                      /\ credited <=> ~parent_credited
                      /\ credited <=> (C32_ReachedByFirstPlayer(i)
                                          = (last'.result = "FirstPlayerWin"))]_vars

\* a decisive result was backpropagated along a path of three nodes
C32_Witness ==
    /\ last.op = "backpropagate"
    /\ last.result # "Draw"
    /\ Node(last.node).parent \notin {None, 0}
    /\ Node(last.node).wins # Node(Node(last.node).parent).wins
====
